---- MODULE Spec2Model ----
(***************************************************************************)
(* Barlow Twins pre-training and evaluation (ABT_SSL_audio).               *)
(*                                                                         *)
(* The module holds several state machines over disjoint groups of         *)
(* variables, one per part of the repository:                              *)
(*   SpecLoss    the loss of BarlowTwins.forward / train() and             *)
(*               off_diagonal (barlow/barlow.py, Barlow-Twins-HSIC/main.py)*)
(* Tensors are modelled as sequences of rows of integers.                  *)
(***************************************************************************)
EXTENDS Integers, Sequences, FiniteSets, TLC

VARIABLES
    \* ---- loss group: one call of off_diagonal / forward / train's loss
    c_in,           \* the matrix handed to off_diagonal / used as c
    lambd,          \* <<numerator, denominator>> of the weight lambda > 0
    corr_neg_one,   \* --corr_neg_one / --corr_zero of the HSIC script
    offdiag_out,    \* outcome of off_diagonal(c_in)
    loss_bt,        \* result of BarlowTwins.forward's loss, scaled by lambda's denominator
    loss_hsic       \* result of train()'s loss (HSIC script), scaled likewise

VARIABLES
    \* ---- kNN group: test() of the HSIC script, one held-out embedding at a time
    feature_labels, \* labels of the memory bank, one per bank embedding
    knn_k,          \* --k, the number of neighbours
    sim_row,        \* similarities of the held-out embedding to the bank (a row of sim_matrix)
    sim_indices,    \* topk indices into the bank, most similar first
    sim_labels,     \* labels of the k neighbours
    sim_weight,     \* (sim / temperature).exp() of the k neighbours
    pred_scores,    \* weighted score of each class
    pred_labels,    \* classes by descending score
    test_left       \* held-out embeddings of test_data_loader not yet processed

varsLoss == <<c_in, lambd, corr_neg_one, offdiag_out, loss_bt, loss_hsic>>

varsKnn == <<feature_labels, knn_k, sim_row, sim_indices, sim_labels, sim_weight,
             pred_scores, pred_labels, test_left>>

VARIABLES
    \* ---- linear-evaluation group: Net, train_val and get_embeddings
    lin_model_type, \* --model_type of the linear evaluation
    pretrained,     \* the encoder parameters stored in the pretrained checkpoint
    enc_w,          \* the encoder parameters, model.f.parameters()
    enc_buf,        \* the encoder buffers (running statistics of its BatchNorm layers)
    fc_w,           \* the classifier parameters, model.fc.parameters()
    requires_grad,  \* requires_grad of the two parameter sets, [f |-> ..., fc |-> ...]
    grad,           \* .grad of the two parameter sets: <<>> is None, <<g>> a gradient
    training,       \* net.training, set by net.train() / net.eval()
    lin_pass,       \* the pass of train_val under way: "none", "train" or "test"
    lin_batch,      \* batches of the pass already processed
    lin_passes,     \* passes and extractions started so far
    lin_op          \* the last operation performed

varsLin == <<lin_model_type, pretrained, enc_w, enc_buf, fc_w, requires_grad, grad,
             training, lin_pass, lin_batch, lin_passes, lin_op>>

VARIABLES
    \* ---- distributed group: the collectives of train_one_epoch on every rank
    world_size,     \* number of processes
    d_epochs,       \* cfg.optimizer.epochs
    d_niter,        \* len(self.data_loader)
    d_save_epoch,   \* cfg.checkpoint.save_epoch
    d_pc,           \* per rank: the place in train_one_epoch
    d_epoch,        \* per rank: the epoch under way
    d_iter,         \* per rank: the iteration of the epoch under way
    d_entered,      \* per rank: the collectives entered so far, in order
    d_completed,    \* per rank: how many of them have returned
    d_corrupt       \* a collective has completed although the ranks were in different ones

varsDist == <<world_size, d_epochs, d_niter, d_save_epoch, d_pc, d_epoch, d_iter, d_entered,
              d_completed, d_corrupt>>

VARIABLES
    \* ---- cross-correlation group: the matrix c of one distributed training step
    x_world,        \* number of processes
    z1,             \* the normalized embeddings of view 1, one row per sample of the global batch
    z2,             \* the normalized embeddings of view 2
    c_local,        \* per rank: c after c.div_(z1.shape[0]), <<>> before
    c_reduced       \* c after torch.distributed.all_reduce(c), <<>> before

varsCorr == <<x_world, z1, z2, c_local, c_reduced>>

VARIABLES
    \* ---- HSIC script group: __main__ of Barlow-Twins-HSIC/main.py and Net.__init__
    h_model_type,   \* --model_type
    h_dataset,      \* --dataset
    h_distributed,  \* --distributed
    h_epochs,       \* --epochs
    h_save_every,   \* --save_every
    h_pc,           \* the place in the script
    h_model,        \* the variable model: "undefined" until it is assigned
    h_optimizer,    \* the variable optimizer
    h_epoch,        \* the loop variable epoch
    h_best_acc,     \* best_acc
    h_test_acc,     \* test_acc_1 of the last kNN evaluation, -1 before the first
    h_evals,        \* the epochs in which test() ran
    h_fs,           \* the files under results/: file name |-> the epoch whose model it holds
    n_pc,           \* the place in Net.__init__
    n_f,            \* self.f of Net
    n_out_dim       \* the local out_dim of Net.__init__: 0 while undefined

varsHsic == <<h_model_type, h_dataset, h_distributed, h_epochs, h_save_every, h_pc, h_model,
              h_optimizer, h_epoch, h_best_acc, h_test_acc, h_evals, h_fs,
              n_pc, n_f, n_out_dim>>

VARIABLES
    \* ---- trainer group: train() of main_pretrain.py and BarlowTwinsTrainer, one process
    t_epochs,       \* cfg.optimizer.epochs
    t_niter,        \* len(self.data_loader)
    t_save_epoch,   \* cfg.checkpoint.save_epoch
    t_fp16,         \* cfg.meta.use_fp16: self.fp16_scaler is not None
    t_pc,           \* the place in train() / train_one_epoch
    t_epoch,        \* the loop variable epoch of train(), -1 before the first call
    t_it,           \* the index enumerate() gives in train_one_epoch
    t_iteration,    \* the global training iteration, -1 before the first
    t_groups,       \* self.optimizer.param_groups: a sequence of [lr, weight_decay]
    t_params,       \* the model parameters
    t_grad,         \* their gradient: <<>> is None, <<g>> a gradient
    t_scale,        \* the scale of the GradScaler
    t_loss,         \* the loss of the iteration: "none", "finite", "nan" or "inf"
    t_status,       \* the exit status of the process, -1 while it runs
    t_error,        \* the exception that ended the process, "none" otherwise
    t_ckpts,        \* the checkpoints written: [epoch, label]
    t_log,          \* the lines appended to the log file: [epoch]
    \* history of the run, kept for the properties
    t_calls,        \* the arguments of the calls of train_one_epoch, in order
    t_used,         \* the global iterations that indexed the schedules, in order
    t_ops,          \* the operations performed in the iteration under way, in order
    t_params_ok     \* the parameters left by the last iteration with a finite loss

varsTrain == <<t_epochs, t_niter, t_save_epoch, t_fp16, t_pc, t_epoch, t_it, t_iteration,
               t_groups, t_params, t_grad, t_scale, t_loss, t_status, t_error, t_ckpts,
               t_log, t_calls, t_used, t_ops, t_params_ok>>

\* the accuracy counters of test() (kNN) and of train_val() (single-label datasets)
VARIABLES
    a_fn,           \* the function that runs: "test" or "train_val"
    a_left,         \* batches the data loader has still to give
    a_pc,           \* "loop", "done", or the exception that ended the call
    a_total_num,    \* total_num
    a_top1,         \* total_top1 / total_correct_1
    a_top5,         \* total_top5 / total_correct_5
    a_batch,        \* the last batch: per sample the predicted ranking and the target
    a_report,       \* the last progress report: Acc@1 and Acc@5 as fractions
    a_return        \* the outcome of the call

varsAcc == <<a_fn, a_left, a_pc, a_total_num, a_top1, a_top5, a_batch, a_report, a_return>>

vars == <<varsLoss, varsKnn, varsLin, varsDist, varsCorr, varsHsic, varsTrain, varsAcc>>

\* what the actions of one group leave alone
notLoss == <<varsKnn, varsLin, varsDist, varsCorr, varsHsic, varsTrain, varsAcc>>
notKnn == <<varsLoss, varsLin, varsDist, varsCorr, varsHsic, varsTrain, varsAcc>>
notLin == <<varsLoss, varsKnn, varsDist, varsCorr, varsHsic, varsTrain, varsAcc>>
notDist == <<varsLoss, varsKnn, varsLin, varsCorr, varsHsic, varsTrain, varsAcc>>
notCorr == <<varsLoss, varsKnn, varsLin, varsDist, varsHsic, varsTrain, varsAcc>>
notHsic == <<varsLoss, varsKnn, varsLin, varsDist, varsCorr, varsTrain, varsAcc>>
notTrain == <<varsLoss, varsKnn, varsLin, varsDist, varsCorr, varsHsic, varsAcc>>
notAcc == <<varsLoss, varsKnn, varsLin, varsDist, varsCorr, varsHsic, varsTrain>>

\* the outcome of a call: not made yet, a returned value, or a raised exception
Unset == [st |-> "unset"]
Ok(v) == [st |-> "ok", val |-> v]
Raised(e) == [st |-> e]

(***************************************************************************)
(* Each group at rest: its value in the specifications of the other groups *)
(***************************************************************************)
\* the loss group at rest, for the specifications of the other groups
LossIdle ==
    /\ c_in = <<<<1>>>>
    /\ lambd = <<1, 200>>
    /\ corr_neg_one = FALSE
    /\ offdiag_out = Unset
    /\ loss_bt = Unset
    /\ loss_hsic = Unset

KnnIdle ==
    /\ feature_labels = <<>>
    /\ knn_k = 0
    /\ sim_row = <<>>
    /\ sim_indices = <<>>
    /\ sim_labels = <<>>
    /\ sim_weight = <<>>
    /\ pred_scores = <<>>
    /\ pred_labels = <<>>
    /\ test_left = 0

LinIdle ==
    /\ lin_model_type = "resnet"
    /\ pretrained = 0
    /\ enc_w = 0
    /\ enc_buf = 0
    /\ fc_w = 0
    /\ requires_grad = [f |-> FALSE, fc |-> TRUE]
    /\ grad = [f |-> <<>>, fc |-> <<>>]
    /\ training = FALSE
    /\ lin_pass = "none"
    /\ lin_batch = 0
    /\ lin_passes = 0
    /\ lin_op = "none"

DistIdle ==
    /\ world_size = 1
    /\ d_epochs = 0
    /\ d_niter = 0
    /\ d_save_epoch = 1
    /\ d_pc = <<>>
    /\ d_epoch = <<>>
    /\ d_iter = <<>>
    /\ d_entered = <<>>
    /\ d_completed = <<>>
    /\ d_corrupt = FALSE

CorrIdle ==
    /\ x_world = 1
    /\ z1 = <<>>
    /\ z2 = <<>>
    /\ c_local = <<>>
    /\ c_reduced = <<>>

HsicIdle ==
    /\ h_model_type = "resnet"
    /\ h_dataset = "fsd50k"
    /\ h_distributed = FALSE
    /\ h_epochs = 0
    /\ h_save_every = 1
    /\ h_pc = "done"
    /\ h_model = "undefined"
    /\ h_optimizer = "undefined"
    /\ h_epoch = 0
    /\ h_best_acc = 0
    /\ h_test_acc = -1
    /\ h_evals = {}
    /\ h_fs = <<>>
    /\ n_pc = "built"
    /\ n_f = "undefined"
    /\ n_out_dim = 0

AccIdle ==
    /\ a_fn = "none"
    /\ a_left = 0
    /\ a_pc = "done"
    /\ a_total_num = 0
    /\ a_top1 = 0
    /\ a_top5 = 0
    /\ a_batch = <<>>
    /\ a_report = Unset
    /\ a_return = Unset

TrainIdle ==
    /\ t_epochs = 0
    /\ t_niter = 0
    /\ t_save_epoch = 1
    /\ t_fp16 = FALSE
    /\ t_pc = "done"
    /\ t_epoch = -1
    /\ t_it = 0
    /\ t_iteration = -1
    /\ t_groups = <<>>
    /\ t_params = 0
    /\ t_grad = <<>>
    /\ t_scale = 0
    /\ t_loss = "none"
    /\ t_status = 0
    /\ t_error = "none"
    /\ t_ckpts = {}
    /\ t_log = <<>>
    /\ t_calls = <<>>
    /\ t_used = <<>>
    /\ t_ops = <<>>
    /\ t_params_ok = 0

(***************************************************************************)
(* Bounds                                                                  *)
(***************************************************************************)
\* largest number of rows / columns of a matrix
MaxDim == 3

\* entries of the matrices that are enumerated: three values for the matrices of
\* up to four entries, two for the larger ones
Vals(n, m) == IF n * m <= 4 THEN {-1, 0, 1} ELSE {0, 1}

\* weights lambda > 0 as <<numerator, denominator>>; 1/200 is the default 0.005
Lambdas == {<<1, 200>>, <<3, 1>>}

(***************************************************************************)
(* Tensor helpers                                                          *)
(***************************************************************************)
RECURSIVE SumSeq(_)
SumSeq(s) == IF s = <<>> THEN 0 ELSE Head(s) + SumSeq(Tail(s))

RECURSIVE Flatten(_)
\* x.flatten(): the rows one after the other
Flatten(x) == IF x = <<>> THEN <<>> ELSE Head(x) \o Flatten(Tail(x))

\* number of rows and of columns of a matrix with at least one row
NRows(x) == Len(x)
NCols(x) == Len(x[1])

\* s.view(r, k): r rows of k consecutive elements
View(s, r, k) == [i \in 1..r |-> SubSeq(s, (i - 1) * k + 1, i * k)]

\* v[:, 1:]: every row without its first element
DropFirstCol(v) == [i \in 1..Len(v) |-> Tail(v[i])]

\* s[:-1]
DropLast(s) == SubSeq(s, 1, Len(s) - 1)

\* a mutated off_diagonal that keeps the first column of the view (the diagonal)
off_diagonal_keeps_diag(x) ==
    IF NRows(x) # NCols(x) THEN Raised("AssertionError")
    ELSE Ok(Flatten(View(DropLast(Flatten(x)), NRows(x) - 1, NRows(x) + 1)))

\* off_diagonal(x): x.flatten()[:-1].view(n - 1, n + 1)[:, 1:].flatten()
off_diagonal(x) ==
    IF NRows(x) # NCols(x) THEN Raised("AssertionError")
    ELSE Ok(Flatten(DropFirstCol(View(DropLast(Flatten(x)), NRows(x) - 1, NRows(x) + 1))))

\* torch.diagonal(c).add_(-1).pow_(2): c with its diagonal overwritten in place
DiagAddPow(c) ==
    [i \in 1..NRows(c) |->
        [j \in 1..NCols(c) |->
            IF i = j THEN (c[i][j] - 1) * (c[i][j] - 1) ELSE c[i][j]]]

Diagonal(c) == [i \in 1..NRows(c) |-> c[i][i]]

Squares(s) == [i \in 1..Len(s) |-> s[i] * s[i]]

SquaresPlusOne(s) == [i \in 1..Len(s) |-> (s[i] + 1) * (s[i] + 1)]

\* a mutated loss that drops the off-diagonal term
BarlowLoss_no_off(c, lam) ==
    IF NRows(c) # NCols(c) THEN Raised("AssertionError")
    ELSE Ok(lam[2] * SumSeq(Diagonal(DiagAddPow(c))))

\* BarlowTwins.forward, from c on: on_diag + lambd * off_diag, times lambda's denominator
BarlowLoss(c, lam) ==
    LET c1 == DiagAddPow(c)
        on_diag == SumSeq(Diagonal(c1))
        od == off_diagonal(c1)
    IN IF od.st # "ok" THEN Raised(od.st)
       ELSE Ok(lam[2] * on_diag + lam[1] * SumSeq(Squares(od.val)))

\* train() of the HSIC script, from c on, in both settings of corr_neg_one
HsicLoss(c, lam, neg) ==
    LET c1 == DiagAddPow(c)
        on_diag == SumSeq(Diagonal(c1))
        od == off_diagonal(c1)
    IN IF od.st # "ok" THEN Raised(od.st)
       ELSE IF neg = FALSE
            THEN Ok(lam[2] * on_diag + lam[1] * SumSeq(Squares(od.val)))
            ELSE Ok(lam[2] * on_diag + lam[1] * SumSeq(SquaresPlusOne(od.val)))

(***************************************************************************)
(* kNN group: test() of Barlow-Twins-HSIC/main.py                          *)
(***************************************************************************)
\* number of held-out embeddings in test_data_loader
TestLoaderLen == 1

\* largest similarity of a held-out embedding to a bank embedding (0..MaxSim)
MaxSim == 2

\* the memory banks that are enumerated (their labels), over c = 3 classes
Banks == {<<0, 1, 1>>, <<1, 0, 0>>, <<2, 1, 0>>, <<2, 2, 2>>}

\* c: the number of classes
NumClasses == 3

Classes == 0..(NumClasses - 1)

\* (sim_weight / temperature).exp(): positive and strictly increasing; the
\* temperature is taken so that one unit of similarity doubles the weight
ExpWeight(sim) == 2 ^ sim

IsInjective(f) == \A i \in DOMAIN f : \A j \in DOMAIN f : f[i] = f[j] => i = j

\* row.topk(k): the indices of k largest entries, largest first, ties in any order
TopK(row, k) ==
    {idx \in [1..k -> 1..Len(row)] :
        /\ IsInjective(idx)
        /\ \A i \in 1..k : \A j \in 1..k : i < j => row[idx[i]] >= row[idx[j]]
        /\ \A m \in 1..Len(row) :
              (\A i \in 1..k : idx[i] # m) => row[m] <= row[idx[k]]}

\* torch.gather(feature_labels, index=sim_indices)
Gather(labels, idx) == [i \in 1..Len(idx) |-> labels[idx[i]]]

RECURSIVE SumWhere(_, _, _)
\* the sum of w[i] over the i with lab[i] = cls
SumWhere(w, lab, cls) ==
    IF w = <<>> THEN 0
    ELSE (IF Head(lab) = cls THEN Head(w) ELSE 0) + SumWhere(Tail(w), Tail(lab), cls)

\* a mutated score that counts the neighbours of a class and ignores their weight
PredScores_unweighted(labels, weights) ==
    [cls \in Classes |-> SumWhere([i \in 1..Len(weights) |-> 1], labels, cls)]

\* one_hot_label.scatter(...) * sim_weight, summed over the k neighbours
PredScores(labels, weights) ==
    [cls \in Classes |-> SumWhere(weights, labels, cls)]

\* scores.argsort(descending=True): the classes by descending score, ties in any order
ArgsortDesc(scores) ==
    {p \in [1..Cardinality(DOMAIN scores) -> DOMAIN scores] :
        /\ IsInjective(p)
        /\ \A i \in DOMAIN p : \A j \in DOMAIN p : i < j => scores[p[i]] >= scores[p[j]]}

\* the feature bank is built and k is given; no held-out embedding seen yet
KnnInit ==
    /\ feature_labels \in Banks
    /\ knn_k \in 1..Len(feature_labels)
    /\ sim_row = <<>>
    /\ sim_indices = <<>>
    /\ sim_labels = <<>>
    /\ sim_weight = <<>>
    /\ pred_scores = <<>>
    /\ pred_labels = <<>>
    /\ test_left = TestLoaderLen

\* the body of the test loop for one held-out embedding
TestSample ==
    /\ test_left > 0
    /\ test_left' = test_left - 1
    /\ \E row \in [1..Len(feature_labels) -> 0..MaxSim] :
         \E idx \in TopK(row, knn_k) :
            LET labs == Gather(feature_labels, idx)
                wts == [i \in 1..knn_k |-> ExpWeight(row[idx[i]])]
                scores == PredScores(labs, wts)
            IN \E p \in ArgsortDesc(scores) :
                /\ sim_row' = row
                /\ sim_indices' = idx
                /\ sim_labels' = labs
                /\ sim_weight' = wts
                /\ pred_scores' = scores
                /\ pred_labels' = p
    /\ UNCHANGED <<feature_labels, knn_k>>
    /\ UNCHANGED notKnn

KnnNext == TestSample

InitKnn ==
    KnnInit /\ LossIdle /\ LinIdle /\ DistIdle /\ CorrIdle /\ HsicIdle /\ TrainIdle /\ AccIdle

SpecKnn == InitKnn /\ [][KnnNext]_vars

\* the number of the k neighbours labelled cls
Votes(labels, cls) == Cardinality({i \in 1..Len(labels) : labels[i] = cls})

\* C3 (as stated): the predicted class has the largest number of occurrences among
\* the labels of the k most similar bank embeddings.
C3_MajorityVote ==
    pred_labels # <<>> =>
        \A cls \in Classes : Votes(sim_labels, pred_labels[1]) >= Votes(sim_labels, cls)

\* C3 (amended): the predicted class is a class with the largest weighted score,
\* the sum of exp(similarity / temperature) over those of the k most similar bank
\* embeddings that carry its label.
C3_WeightedVote ==
    pred_labels # <<>> =>
        /\ \A i \in 1..knn_k :
              /\ sim_labels[i] = feature_labels[sim_indices[i]]
              /\ sim_weight[i] = ExpWeight(sim_row[sim_indices[i]])
        /\ \A m \in 1..Len(sim_row) :
              (\A i \in 1..knn_k : sim_indices[i] # m) =>
                  \A i \in 1..knn_k : sim_row[m] <= sim_row[sim_indices[i]]
        /\ \A cls \in Classes :
              SumWhere(sim_weight, sim_labels, pred_labels[1])
                  >= SumWhere(sim_weight, sim_labels, cls)

\* one close neighbour of class 0 outweighs two distant neighbours of class 1
C3_Witness ==
    /\ feature_labels = <<0, 1, 1>>
    /\ knn_k = 3
    /\ sim_row = <<2, 0, 0>>
    /\ pred_labels # <<>>
    /\ pred_labels[1] = 0
    /\ Votes(sim_labels, 1) = 2

(***************************************************************************)
(* Loss group: state machine                                               *)
(***************************************************************************)
Matrices == UNION {[1..n -> [1..m -> Vals(n, m)]] : n \in 1..MaxDim, m \in 1..MaxDim}

LossInit ==
    /\ c_in \in Matrices
    /\ lambd \in Lambdas
    /\ corr_neg_one \in BOOLEAN
    /\ offdiag_out = Unset
    /\ loss_bt = Unset
    /\ loss_hsic = Unset

CallOffDiagonal ==
    /\ offdiag_out = Unset
    /\ offdiag_out' = off_diagonal(c_in)
    /\ UNCHANGED <<c_in, lambd, corr_neg_one, loss_bt, loss_hsic>>
    /\ UNCHANGED notLoss

CallForward ==
    /\ loss_bt = Unset
    /\ loss_bt' = BarlowLoss(c_in, lambd)
    /\ UNCHANGED <<c_in, lambd, corr_neg_one, offdiag_out, loss_hsic>>
    /\ UNCHANGED notLoss

CallTrainLoss ==
    /\ loss_hsic = Unset
    /\ loss_hsic' = HsicLoss(c_in, lambd, corr_neg_one)
    /\ UNCHANGED <<c_in, lambd, corr_neg_one, offdiag_out, loss_bt>>
    /\ UNCHANGED notLoss

LossNext == CallOffDiagonal \/ CallForward \/ CallTrainLoss

InitLoss ==
    LossInit /\ KnnIdle /\ LinIdle /\ DistIdle /\ CorrIdle /\ HsicIdle /\ TrainIdle /\ AccIdle

SpecLoss == InitLoss /\ [][LossNext]_vars

(***************************************************************************)
(* Properties of the loss group                                            *)
(***************************************************************************)
IsSquare(x) == NRows(x) = NCols(x)

IsIdentity(x) ==
    /\ IsSquare(x)
    /\ \A i \in 1..NRows(x) : \A j \in 1..NCols(x) : x[i][j] = (IF i = j THEN 1 ELSE 0)

\* diagonal 1 and every off-diagonal entry -1: the target of the HSIC variant
IsNegOneTarget(x) ==
    /\ IsSquare(x)
    /\ \A i \in 1..NRows(x) : \A j \in 1..NCols(x) : x[i][j] = (IF i = j THEN 1 ELSE -1)

\* the k-th off-diagonal position of an n x n matrix in row-major order
OffDiagRow(k, n) == ((k - 1) \div (n - 1)) + 1
OffDiagCol(k, n) ==
    LET i == OffDiagRow(k, n)
        r == ((k - 1) % (n - 1)) + 1
    IN IF r < i THEN r ELSE r + 1

\* C1 (as stated): every loss is non-negative and is zero exactly when c is the
\* identity matrix, for BarlowTwins.forward and for train() of the HSIC script in
\* both settings of corr_neg_one.
C1_LossZeroIffIdentity ==
    /\ loss_bt.st = "ok" => (loss_bt.val >= 0 /\ (loss_bt.val = 0 <=> IsIdentity(c_in)))
    /\ loss_hsic.st = "ok" => (loss_hsic.val >= 0 /\ (loss_hsic.val = 0 <=> IsIdentity(c_in)))

\* C1 (amended): every loss is non-negative; the loss of BarlowTwins.forward and of
\* train() with corr_neg_one = False is zero exactly when c is the identity matrix;
\* the loss of train() with corr_neg_one = True is zero exactly when c has diagonal 1
\* and every off-diagonal entry -1.
C1_LossZeroIffTarget ==
    /\ loss_bt.st = "ok" => (loss_bt.val >= 0 /\ (loss_bt.val = 0 <=> IsIdentity(c_in)))
    /\ loss_hsic.st = "ok" =>
         /\ loss_hsic.val >= 0
         /\ corr_neg_one = FALSE => (loss_hsic.val = 0 <=> IsIdentity(c_in))
         /\ corr_neg_one = TRUE => (loss_hsic.val = 0 <=> IsNegOneTarget(c_in))

\* a 2 x 2 matrix off the identity only in an off-diagonal entry, both losses computed
C1_Witness ==
    /\ loss_bt.st = "ok" /\ loss_hsic.st = "ok"
    /\ NRows(c_in) = 2
    /\ c_in[1][1] = 1 /\ c_in[2][2] = 1 /\ c_in[1][2] = -1 /\ c_in[2][1] = -1
    /\ corr_neg_one = TRUE
    /\ loss_hsic.val = 0 /\ loss_bt.val > 0

\* C2: for a square n x n input off_diagonal returns the n*(n-1) entries x[i][j],
\* i # j, each once and in row-major order, and no diagonal entry; for a non-square
\* input the assertion fails and nothing is returned.
C2_OffDiagonalExact ==
    offdiag_out # Unset =>
        IF IsSquare(c_in)
        THEN LET n == NRows(c_in) IN
             /\ offdiag_out.st = "ok"
             /\ Len(offdiag_out.val) = n * (n - 1)
             /\ \A k \in 1..(n * (n - 1)) :
                    /\ OffDiagRow(k, n) # OffDiagCol(k, n)
                    /\ offdiag_out.val[k] = c_in[OffDiagRow(k, n)][OffDiagCol(k, n)]
             /\ \A i \in 1..n : \A j \in 1..n :
                    i # j => Cardinality({k \in 1..(n * (n - 1)) :
                                OffDiagRow(k, n) = i /\ OffDiagCol(k, n) = j}) = 1
        ELSE offdiag_out.st = "AssertionError"

\* a 3 x 3 input with a diagonal of 0: its six other entries are returned in order
C2_Witness ==
    /\ c_in = <<<<0, 1, 0>>, <<0, 0, 1>>, <<1, 1, 0>>>>
    /\ offdiag_out = Ok(<<1, 0, 0, 1, 1, 1>>)

\* a 2 x 3 input: the assertion fails
C2_WitnessNonSquare ==
    /\ NRows(c_in) = 2 /\ NCols(c_in) = 3
    /\ offdiag_out.st = "AssertionError"

(***************************************************************************)
(* Linear evaluation: Barlow-Twins-HSIC/linear.py and linear.py            *)
(***************************************************************************)
\* passes of train_val and calls of get_embeddings in one run
MaxLinPasses == 3

\* len(data_loader) of the evaluation loaders
LinLoaderLen == 2

\* the gradients loss.backward() can leave on a parameter
Grads == {-1, 1}

\* the values the running statistics of a BatchNorm layer can take
BufVals == {0, 1}

\* a mutated freeze that leaves the encoder trainable
FreezeEncoder_skipped(flags) == flags

\* for param in model.f.parameters(): param.requires_grad = False
FreezeEncoder(flags) == [flags EXCEPT !.f = FALSE]

\* loss.backward(): a gradient on every parameter that requires one; .grad of the
\* others stays as it is
Backward(gr, flags, g) ==
    [f |-> IF flags.f THEN <<g>> ELSE gr.f,
     fc |-> IF flags.fc THEN <<g>> ELSE gr.fc]

\* train_optimizer.zero_grad(): gradients are cleared, None stays None
ZeroGrad(gr) == [f |-> <<>>, fc |-> <<>>]

\* train_optimizer.step() on one parameter: skipped when its .grad is None
StepParam(w, g) == IF g = <<>> THEN w ELSE w - g[1]

\* the encoder has BatchNorm layers when it is the ResNet
HasBatchNorm(mt) == mt = "resnet"

\* the state at the start of the epoch loop: the net is built from the checkpoint,
\* the encoder is frozen and the optimizer holds model.parameters()
LinInit ==
    /\ lin_model_type \in {"resnet", "vit_base"}
    /\ pretrained \in {0, 5}
    /\ enc_w = pretrained
    /\ enc_buf = 0
    /\ fc_w \in {0, 1}
    /\ requires_grad = FreezeEncoder([f |-> TRUE, fc |-> TRUE])
    /\ grad = [f |-> <<>>, fc |-> <<>>]
    /\ training = TRUE
    /\ lin_pass = "none"
    /\ lin_batch = 0
    /\ lin_passes = 0
    /\ lin_op = "none"

\* train_val(net, loader, optimizer, ...) up to its loop: net.train()
StartTrainPass ==
    /\ lin_pass = "none"
    /\ lin_passes < MaxLinPasses
    /\ lin_passes' = lin_passes + 1
    /\ lin_pass' = "train"
    /\ lin_batch' = 0
    /\ training' = TRUE
    /\ lin_op' = "train.start"
    /\ UNCHANGED <<lin_model_type, pretrained, enc_w, enc_buf, fc_w, requires_grad, grad>>
    /\ UNCHANGED notLin

\* train_val(net, loader, None, ...) up to its loop: net.eval()
StartTestPass ==
    /\ lin_pass = "none"
    /\ lin_passes < MaxLinPasses
    /\ lin_passes' = lin_passes + 1
    /\ lin_pass' = "test"
    /\ lin_batch' = 0
    /\ training' = FALSE
    /\ lin_op' = "test.start"
    /\ UNCHANGED <<lin_model_type, pretrained, enc_w, enc_buf, fc_w, requires_grad, grad>>
    /\ UNCHANGED notLin

\* one batch of a training pass: forward, zero_grad, backward, step
TrainBatch ==
    /\ lin_pass = "train"
    /\ lin_batch < LinLoaderLen
    /\ lin_batch' = lin_batch + 1
    /\ \E g \in Grads : \E b \in BufVals :
         LET gr == Backward(ZeroGrad(grad), requires_grad, g)
         IN /\ enc_buf' = IF training /\ HasBatchNorm(lin_model_type) THEN b ELSE enc_buf
            /\ grad' = gr
            /\ enc_w' = StepParam(enc_w, gr.f)
            /\ fc_w' = StepParam(fc_w, gr.fc)
    /\ lin_op' = "train.batch"
    /\ UNCHANGED <<lin_model_type, pretrained, requires_grad, training, lin_pass, lin_passes>>
    /\ UNCHANGED notLin

\* one batch of a test pass: forward under torch.no_grad()
TestBatch ==
    /\ lin_pass = "test"
    /\ lin_batch < LinLoaderLen
    /\ lin_batch' = lin_batch + 1
    /\ \E b \in BufVals :
         enc_buf' = IF training /\ HasBatchNorm(lin_model_type) THEN b ELSE enc_buf
    /\ lin_op' = "test.batch"
    /\ UNCHANGED <<lin_model_type, pretrained, enc_w, fc_w, requires_grad, grad, training,
                   lin_pass, lin_passes>>
    /\ UNCHANGED notLin

\* the loader is exhausted: train_val returns
EndPass ==
    /\ lin_pass \in {"train", "test"}
    /\ lin_batch = LinLoaderLen
    /\ lin_pass' = "none"
    /\ lin_op' = IF lin_pass = "train" THEN "train.end" ELSE "test.end"
    /\ UNCHANGED <<lin_model_type, pretrained, enc_w, enc_buf, fc_w, requires_grad, grad,
                   training, lin_batch, lin_passes>>
    /\ UNCHANGED notLin

\* get_embeddings(model, data_loader): model.eval(), then forward passes of the
\* encoder under torch.no_grad()
GetEmbeddings ==
    /\ lin_pass = "none"
    /\ lin_passes < MaxLinPasses
    /\ lin_passes' = lin_passes + 1
    /\ training' = FALSE
    /\ lin_op' = "get_embeddings"
    /\ UNCHANGED <<lin_model_type, pretrained, enc_w, enc_buf, fc_w, requires_grad, grad,
                   lin_pass, lin_batch>>
    /\ UNCHANGED notLin

LinNext ==
    \/ StartTrainPass
    \/ StartTestPass
    \/ TrainBatch
    \/ TestBatch
    \/ EndPass
    \/ GetEmbeddings

InitLin ==
    LinInit /\ LossIdle /\ KnnIdle /\ DistIdle /\ CorrIdle /\ HsicIdle /\ TrainIdle /\ AccIdle

SpecLin == InitLin /\ [][LinNext]_vars

\* the operations of a test pass and of an embedding extraction
ReadOnlyOps == {"test.start", "test.batch", "test.end", "get_embeddings"}

\* C4: the encoder parameters always equal the values loaded from the checkpoint;
\* a step changes the classifier parameters only if it is a batch of a training
\* pass; a step of a test pass or of get_embeddings changes no parameter.
C4_EncoderFrozen ==
    /\ [](enc_w = pretrained)
    /\ [][/\ enc_w' = enc_w
          /\ fc_w' # fc_w => lin_op' = "train.batch"
          /\ lin_op' \in ReadOnlyOps => (enc_w' = enc_w /\ fc_w' = fc_w)]_vars

\* after a training pass that moved the classifier, a test pass and an extraction
C4_Witness ==
    /\ lin_op = "get_embeddings"
    /\ lin_passes = 3
    /\ fc_w = 3
    /\ enc_w = pretrained /\ pretrained = 5
    /\ grad.fc # <<>> /\ grad.f = <<>>

(***************************************************************************)
(* The trainer: train() of main_pretrain.py and BarlowTwinsTrainer         *)
(***************************************************************************)
\* largest cfg.optimizer.epochs
MaxEpochs == 2

\* largest len(self.data_loader)
MaxIters == 2

\* largest cfg.checkpoint.save_epoch
MaxSaveEpoch == 2

\* number of parameter groups utils.get_param_groups gives the optimizer
NumGroups == 2

\* utils.cosine_scheduler(..., epochs, niter_per_ep, ...): one entry per training
\* step, epochs * niter_per_ep of them; entry i is written base + i here
Schedule(base, epochs, niter) == [i \in 1..(epochs * niter) |-> base + (i - 1)]

lr_schedule == Schedule(100, t_epochs, t_niter)

wd_schedule == Schedule(200, t_epochs, t_niter)

\* iteration = len(self.data_loader) * epoch + iteration
GlobalIteration(niter, epoch, it) == niter * epoch + it

\* a mutated loop that sets the weight decay of every parameter group
SetSchedules_every_group(groups, lr, wd) ==
    [i \in 1..Len(groups) |-> [lr |-> lr, weight_decay |-> wd]]

\* the loop of lines 114-117 over the parameter groups
SetSchedules(groups, lr, wd) ==
    [i \in 1..Len(groups) |->
        [lr |-> lr,
         weight_decay |-> IF i - 1 = 0 THEN wd ELSE groups[i].weight_decay]]

\* a mutated check that lets a non-finite loss through
IsFinite_always(loss) == TRUE

\* math.isfinite(loss.item())
IsFinite(loss) == loss = "finite"

\* if epoch % self.cfg.checkpoint.save_epoch == 0
CheckpointDue(epoch, save_epoch) == epoch % save_epoch = 0

\* the attributes of self.model, a DistributedDataParallel wrapper: the wrapped
\* BarlowTwins is its 'module'; 'backbone' is an attribute of the wrapped module only
DdpHasAttr(name) == name \in {"module"}

\* the weight decay utils.get_param_groups gives parameter group i (1-based here):
\* the first group is regularized, the others are not
InitialWeightDecay(i) == IF i = 1 THEN 1 ELSE 0

TrainInit ==
    /\ t_epochs \in 1..MaxEpochs
    /\ t_niter \in 1..MaxIters
    /\ t_save_epoch \in 1..MaxSaveEpoch
    /\ t_fp16 \in BOOLEAN
    /\ t_pc = "train_loop"
    /\ t_epoch = -1
    /\ t_it = 0
    /\ t_iteration = -1
    /\ t_groups = [i \in 1..NumGroups |-> [lr |-> 1, weight_decay |-> InitialWeightDecay(i)]]
    /\ t_params = 0
    /\ t_grad = <<>>
    /\ t_scale = 1
    /\ t_loss = "none"
    /\ t_status = -1
    /\ t_error = "none"
    /\ t_ckpts = {}
    /\ t_log = <<>>
    /\ t_calls = <<>>
    /\ t_used = <<>>
    /\ t_ops = <<>>
    /\ t_params_ok = 0

\* train(): for epoch in range(cfg.optimizer.epochs): trainer.train_one_epoch(epoch)
TrainLoop ==
    /\ t_pc = "train_loop"
    /\ IF t_epoch + 1 < t_epochs
       THEN /\ t_epoch' = t_epoch + 1
            /\ t_calls' = Append(t_calls, t_epoch + 1)
            /\ t_it' = 0
            /\ t_pc' = "iter_head"
            /\ UNCHANGED t_status
       ELSE /\ t_pc' = "done"
            /\ t_status' = 0
            /\ UNCHANGED <<t_epoch, t_calls, t_it>>
    /\ UNCHANGED <<t_epochs, t_niter, t_save_epoch, t_fp16, t_iteration, t_groups, t_params,
                   t_grad, t_scale, t_loss, t_error, t_ckpts, t_log, t_used, t_ops,
                   t_params_ok>>
    /\ UNCHANGED notTrain

\* the head of the loop over the data loader: the global iteration, then the
\* learning rate and the weight decay of the parameter groups
IterHead ==
    /\ t_pc = "iter_head"
    /\ IF t_it < t_niter
       THEN LET g == GlobalIteration(t_niter, t_epoch, t_it) IN
            /\ t_iteration' = g
            /\ t_ops' = <<>>
            /\ t_loss' = "none"
            /\ IF g < Len(lr_schedule) /\ g < Len(wd_schedule)
               THEN /\ t_groups' = SetSchedules(t_groups, lr_schedule[g + 1], wd_schedule[g + 1])
                    /\ t_used' = Append(t_used, g)
                    /\ t_pc' = "forward"
                    /\ UNCHANGED <<t_status, t_error>>
               ELSE /\ t_pc' = "crashed"
                    /\ t_error' = "IndexError"
                    /\ t_status' = 1
                    /\ UNCHANGED <<t_groups, t_used>>
       ELSE /\ t_pc' = "synchronize"
            /\ UNCHANGED <<t_iteration, t_ops, t_loss, t_groups, t_used, t_status, t_error>>
    /\ UNCHANGED <<t_epochs, t_niter, t_save_epoch, t_fp16, t_epoch, t_it, t_params, t_grad,
                   t_scale, t_ckpts, t_log, t_calls, t_params_ok>>
    /\ UNCHANGED notTrain

\* loss = self.model(y1, y2)
Forward ==
    /\ t_pc = "forward"
    /\ t_loss' \in {"finite", "nan", "inf"}
    /\ t_ops' = Append(t_ops, "forward")
    /\ t_pc' = "check_finite"
    /\ UNCHANGED <<t_epochs, t_niter, t_save_epoch, t_fp16, t_epoch, t_it, t_iteration,
                   t_groups, t_params, t_grad, t_scale, t_status, t_error, t_ckpts, t_log,
                   t_calls, t_used, t_params_ok>>
    /\ UNCHANGED notTrain

\* if not math.isfinite(loss.item()): self.printer(..., force=True); sys.exit(1).
\* The printer is print unless the caller gives one; whether print takes the keyword
\* force depends on code outside this file, so the process ends by SystemExit(1) or
\* by the TypeError of the call, with exit status 1 either way
CheckFinite ==
    /\ t_pc = "check_finite"
    /\ IF IsFinite(t_loss)
       THEN /\ t_pc' = "zero_grad"
            /\ UNCHANGED <<t_status, t_error>>
       ELSE /\ t_pc' = "exited"
            /\ t_status' = 1
            /\ t_error' \in {"SystemExit", "TypeError"}
    /\ UNCHANGED <<t_epochs, t_niter, t_save_epoch, t_fp16, t_epoch, t_it, t_iteration,
                   t_groups, t_params, t_grad, t_scale, t_loss, t_ckpts, t_log, t_calls,
                   t_used, t_ops, t_params_ok>>
    /\ UNCHANGED notTrain

\* self.optimizer.zero_grad()
ZeroGradStep ==
    /\ t_pc = "zero_grad"
    /\ t_grad' = <<>>
    /\ t_ops' = Append(t_ops, "zero_grad")
    /\ t_pc' = "backward"
    /\ UNCHANGED <<t_epochs, t_niter, t_save_epoch, t_fp16, t_epoch, t_it, t_iteration,
                   t_groups, t_params, t_scale, t_loss, t_status, t_error, t_ckpts, t_log,
                   t_calls, t_used, t_params_ok>>
    /\ UNCHANGED notTrain

\* loss.backward() / self.fp16_scaler.scale(loss).backward()
BackwardStep ==
    /\ t_pc = "backward"
    /\ \E g \in {-1, 1} : t_grad' = <<g>>
    /\ t_ops' = Append(t_ops, "backward")
    /\ t_pc' = "optimizer_step"
    /\ UNCHANGED <<t_epochs, t_niter, t_save_epoch, t_fp16, t_epoch, t_it, t_iteration,
                   t_groups, t_params, t_scale, t_loss, t_status, t_error, t_ckpts, t_log,
                   t_calls, t_used, t_params_ok>>
    /\ UNCHANGED notTrain

\* self.optimizer.step() / self.fp16_scaler.step(self.optimizer)
OptimizerStep ==
    /\ t_pc = "optimizer_step"
    /\ t_params' = t_params - t_grad[1]
    /\ t_params_ok' = t_params - t_grad[1]
    /\ t_ops' = Append(t_ops, "optimizer_step")
    /\ t_pc' = IF t_fp16 THEN "scaler_update" ELSE "logging"
    /\ UNCHANGED <<t_epochs, t_niter, t_save_epoch, t_fp16, t_epoch, t_it, t_iteration,
                   t_groups, t_grad, t_scale, t_loss, t_status, t_error, t_ckpts, t_log,
                   t_calls, t_used>>
    /\ UNCHANGED notTrain

\* self.fp16_scaler.update()
ScalerUpdate ==
    /\ t_pc = "scaler_update"
    /\ t_scale' \in {1, 2}
    /\ t_ops' = Append(t_ops, "scaler_update")
    /\ t_pc' = "logging"
    /\ UNCHANGED <<t_epochs, t_niter, t_save_epoch, t_fp16, t_epoch, t_it, t_iteration,
                   t_groups, t_params, t_grad, t_loss, t_status, t_error, t_ckpts, t_log,
                   t_calls, t_used, t_params_ok>>
    /\ UNCHANGED notTrain

\* the logging of the iteration; the loop takes the next batch
Logging ==
    /\ t_pc = "logging"
    /\ t_ops' = Append(t_ops, "logging")
    /\ t_it' = t_it + 1
    /\ t_pc' = "iter_head"
    /\ UNCHANGED <<t_epochs, t_niter, t_save_epoch, t_fp16, t_epoch, t_iteration,
                   t_groups, t_params, t_grad, t_scale, t_loss, t_status, t_error, t_ckpts,
                   t_log, t_calls, t_used, t_params_ok>>
    /\ UNCHANGED notTrain

\* metric_logger.synchronize_between_processes() and the averaged stats
Synchronize ==
    /\ t_pc = "synchronize"
    /\ t_pc' = "checkpoint"
    /\ UNCHANGED <<t_epochs, t_niter, t_save_epoch, t_fp16, t_epoch, t_it, t_iteration,
                   t_groups, t_params, t_grad, t_scale, t_loss, t_status, t_error, t_ckpts,
                   t_log, t_calls, t_used, t_ops, t_params_ok>>
    /\ UNCHANGED notTrain

\* if epoch % save_epoch == 0: self.save_checkpoint(epoch, train_stats); then
\* train_one_epoch returns. save_checkpoint reads self.model.backbone first
Checkpoint ==
    /\ t_pc = "checkpoint"
    /\ IF ~CheckpointDue(t_epoch, t_save_epoch)
       THEN /\ t_pc' = "train_loop"
            /\ UNCHANGED <<t_ckpts, t_log, t_status, t_error>>
       ELSE IF DdpHasAttr("backbone")
       THEN /\ t_ckpts' = t_ckpts \cup {[epoch |-> t_epoch + 1, label |-> t_epoch + 1]}
            /\ t_log' = Append(t_log, [epoch |-> t_epoch])
            /\ t_pc' = "train_loop"
            /\ UNCHANGED <<t_status, t_error>>
       ELSE /\ t_pc' = "crashed"
            /\ t_error' = "AttributeError"
            /\ t_status' = 1
            /\ UNCHANGED <<t_ckpts, t_log>>
    /\ UNCHANGED <<t_epochs, t_niter, t_save_epoch, t_fp16, t_epoch, t_it, t_iteration,
                   t_groups, t_params, t_grad, t_scale, t_loss, t_calls, t_used, t_ops,
                   t_params_ok>>
    /\ UNCHANGED notTrain

TrainNext ==
    \/ TrainLoop
    \/ IterHead
    \/ Forward
    \/ CheckFinite
    \/ ZeroGradStep
    \/ BackwardStep
    \/ OptimizerStep
    \/ ScalerUpdate
    \/ Logging
    \/ Synchronize
    \/ Checkpoint

InitTrain ==
    TrainInit /\ LossIdle /\ KnnIdle /\ LinIdle /\ DistIdle /\ CorrIdle /\ HsicIdle /\ AccIdle

SpecTrain == InitTrain /\ [][TrainNext]_vars

\* <<0, 1, ..., n - 1>>
UpTo(n) == [i \in 1..n |-> i - 1]

\* the process has ended otherwise than on a non-finite loss
RunOver == t_pc \in {"done", "crashed"}

\* C9: train_one_epoch is called with epoch = 0, 1, ... in increasing order, the
\* global iteration starts at 0, grows by 1 at every step and stays below E * N; over
\* a whole run (one that no non-finite loss stops) there are exactly E calls and every
\* schedule entry 0 .. E*N - 1 is applied exactly once.
C9_EveryScheduleEntryOnce ==
    /\ t_calls = UpTo(Len(t_calls))
    /\ t_used = UpTo(Len(t_used))
    /\ Len(t_calls) <= t_epochs
    /\ Len(t_used) <= t_epochs * t_niter
    /\ t_error # "IndexError"
    /\ RunOver => (Len(t_calls) = t_epochs /\ Len(t_used) = t_epochs * t_niter)

\* what of C9 the code keeps: the calls and the global iterations are consecutive
\* from 0 and no index is out of range
C9_ConsecutiveInRange ==
    /\ t_calls = UpTo(Len(t_calls))
    /\ t_used = UpTo(Len(t_used))
    /\ Len(t_calls) <= t_epochs
    /\ Len(t_used) <= t_epochs * t_niter
    /\ t_error # "IndexError"

\* the operations that must not happen in an iteration whose loss is not finite
AfterCheckOps == {"zero_grad", "backward", "optimizer_step", "scaler_update", "logging"}

\* C10: once the finiteness check has seen a non-finite loss, the process has ended
\* with exit status 1, none of zero_grad, backward, optimizer step, scaler update and
\* logging has happened in that iteration, no checkpoint was written for it, the
\* parameters are those left by the last iteration with a finite loss, and nothing
\* runs afterwards.
C10_NonFiniteLossStops ==
    /\ [](t_loss \in {"nan", "inf"} /\ t_pc # "check_finite" =>
            /\ t_pc = "exited"
            /\ t_status = 1
            /\ \A i \in 1..Len(t_ops) : t_ops[i] \notin AfterCheckOps
            /\ t_params = t_params_ok
            /\ \A k \in t_ckpts : k.epoch <= t_epoch)
    /\ [][t_pc = "exited" => UNCHANGED varsTrain]_vars

\* a non-finite loss in the second iteration, after a first one that moved the
\* parameters
C10_Witness ==
    /\ t_pc = "exited"
    /\ t_loss = "nan"
    /\ t_iteration = 1
    /\ t_params # 0
    /\ t_ops = <<"forward">>
    /\ t_status = 1

\* the end of epoch e is over: the checkpoint step of train_one_epoch(e) has run
EpochEndPassed(e) ==
    \/ e < t_epoch
    \/ /\ e = t_epoch
       /\ \/ t_pc \in {"train_loop", "done"}
          \/ t_pc = "crashed" /\ t_error = "AttributeError"

\* C11: once the end of epoch e is over, a checkpoint of epoch e exists exactly when
\* e mod save_epoch = 0, and then a log line with 'epoch': e exists too; a checkpoint is
\* written only at the end of its epoch, after the iterations and the synchronization,
\* and its 'epoch' field and its file label both are e + 1.
C11_CheckpointAtEpochEnd ==
    /\ \A e \in 0..(t_epochs - 1) :
          EpochEndPassed(e) =>
              /\ CheckpointDue(e, t_save_epoch)
                    <=> (\E k \in t_ckpts : k.epoch = e + 1)
              /\ CheckpointDue(e, t_save_epoch)
                    <=> (\E i \in 1..Len(t_log) : t_log[i].epoch = e)
    /\ \A k \in t_ckpts :
          /\ k.label = k.epoch
          /\ k.epoch \in 1..t_epochs
          /\ EpochEndPassed(k.epoch - 1)
          /\ CheckpointDue(k.epoch - 1, t_save_epoch)

\* the end of epoch 0 with every loss finite: save_checkpoint has raised and neither a
\* checkpoint nor a log line was written
C11_NoCheckpointOfEpochZero ==
    /\ t_pc = "crashed"
    /\ t_error = "AttributeError"
    /\ t_epoch = 0
    /\ Len(t_used) = t_niter
    /\ t_ckpts = {}
    /\ t_log = <<>>

\* C12: in every training step, once the head of the iteration has run, every
\* parameter group has the learning rate lr_schedule[iteration] and the first group
\* has the weight decay wd_schedule[iteration]; the weight decay of every other group
\* never changes during the run.
C12_WeightDecayFirstGroupOnly ==
    /\ [](t_pc \in {"forward", "check_finite", "zero_grad", "backward", "optimizer_step",
                    "scaler_update", "logging"} =>
            /\ \A i \in DOMAIN t_groups : t_groups[i].lr = lr_schedule[t_iteration + 1]
            /\ t_groups[1].weight_decay = wd_schedule[t_iteration + 1])
    /\ [][\A i \in DOMAIN t_groups :
            i # 1 => t_groups'[i].weight_decay = t_groups[i].weight_decay]_vars

\* the second training step: both groups have the second learning rate, the first
\* group the second weight decay, the other group its first weight decay
C12_Witness ==
    /\ t_pc = "forward"
    /\ t_iteration = 1
    /\ Len(t_groups) >= 2
    /\ t_groups[1] = [lr |-> lr_schedule[2], weight_decay |-> wd_schedule[2]]
    /\ t_groups[2] = [lr |-> lr_schedule[2], weight_decay |-> InitialWeightDecay(2)]
    /\ wd_schedule[2] # InitialWeightDecay(2)

(***************************************************************************)
(* Distributed training: the collectives of BarlowTwinsTrainer             *)
(*                                                                         *)
(* Every rank runs train() on its own. A collective returns on a rank once *)
(* every rank has entered its collective of the same position; when the    *)
(* ranks are then in different collectives the outcome is undefined: the   *)
(* call may never return, or return with a meaningless result.             *)
(***************************************************************************)
\* largest number of processes
MaxWorld == 2

\* largest cfg.optimizer.epochs of the distributed runs
MaxDistEpochs == 2

\* largest len(data_loader) of the distributed runs
MaxDistIters == 2

Ranks == 0..(world_size - 1)

\* pretrain_btaudio: wandb_run is the run on rank 0 and None on every other rank
LogWriterIsNone(rank) == rank # 0

\* utils.all_reduce_mean(x): an all_reduce when there is more than one process
AllReduceMeanCollectives(ws) == IF ws > 1 THEN <<"all_reduce_mean">> ELSE <<>>

\* metric_logger.synchronize_between_processes(): a collective of every rank
SynchronizeCollectives(ws) == IF ws > 1 THEN <<"synchronize_between_processes">> ELSE <<>>

\* the rank is inside a collective that has not returned
InCollective(r) == d_completed[r] < Len(d_entered[r])

\* every rank has entered its n-th collective
AllEntered(n) == \A q \in Ranks : Len(d_entered[q]) >= n

\* the ranks are in the same n-th collective
SameCollective(n) == \A q \in Ranks : \A r \in Ranks : d_entered[q][n] = d_entered[r][n]

DistInit ==
    /\ world_size \in 2..MaxWorld
    /\ d_epochs \in 1..MaxDistEpochs
    /\ d_niter \in 1..MaxDistIters
    /\ d_save_epoch \in 1..MaxSaveEpoch
    /\ d_pc = [r \in Ranks |-> "forward"]
    /\ d_epoch = [r \in Ranks |-> 0]
    /\ d_iter = [r \in Ranks |-> 0]
    /\ d_entered = [r \in Ranks |-> <<>>]
    /\ d_completed = [r \in Ranks |-> 0]
    /\ d_corrupt = FALSE

\* loss = self.model(y1, y2): forward enters torch.distributed.all_reduce(c)
DistForward(r) ==
    /\ d_pc[r] = "forward"
    /\ ~InCollective(r)
    /\ d_entered' = [d_entered EXCEPT ![r] = Append(@, "all_reduce_c")]
    /\ d_pc' = [d_pc EXCEPT ![r] = "backward"]
    /\ UNCHANGED <<world_size, d_epochs, d_niter, d_save_epoch, d_epoch, d_iter, d_completed, d_corrupt>>
    /\ UNCHANGED notDist

\* loss.backward() on the DistributedDataParallel model: the gradients are all-reduced
DistBackward(r) ==
    /\ d_pc[r] = "backward"
    /\ ~InCollective(r)
    /\ d_entered' = [d_entered EXCEPT ![r] = Append(@, "ddp_gradients")]
    /\ d_pc' = [d_pc EXCEPT ![r] = "logging"]
    /\ UNCHANGED <<world_size, d_epochs, d_niter, d_save_epoch, d_epoch, d_iter, d_completed, d_corrupt>>
    /\ UNCHANGED notDist

\* the logging of one iteration: utils.all_reduce_mean(loss_val) is called only where
\* self.log_writer is not None; then the loop goes on or ends
DistLogging(r) ==
    /\ d_pc[r] = "logging"
    /\ ~InCollective(r)
    /\ d_entered' = [d_entered EXCEPT ![r] =
            IF LogWriterIsNone(r) THEN @ ELSE @ \o AllReduceMeanCollectives(world_size)]
    /\ IF d_iter[r] + 1 < d_niter
       THEN /\ d_iter' = [d_iter EXCEPT ![r] = @ + 1]
            /\ d_pc' = [d_pc EXCEPT ![r] = "forward"]
       ELSE /\ d_iter' = d_iter
            /\ d_pc' = [d_pc EXCEPT ![r] = "synchronize"]
    /\ UNCHANGED <<world_size, d_epochs, d_niter, d_save_epoch, d_epoch, d_completed, d_corrupt>>
    /\ UNCHANGED notDist

\* metric_logger.synchronize_between_processes() at the end of the epoch
DistSynchronize(r) ==
    /\ d_pc[r] = "synchronize"
    /\ ~InCollective(r)
    /\ d_entered' = [d_entered EXCEPT ![r] = @ \o SynchronizeCollectives(world_size)]
    /\ d_pc' = [d_pc EXCEPT ![r] = "epoch_end"]
    /\ UNCHANGED <<world_size, d_epochs, d_niter, d_save_epoch, d_epoch, d_iter, d_completed, d_corrupt>>
    /\ UNCHANGED notDist

\* the end of train_one_epoch: save_checkpoint when it is due, which reads
\* self.model.backbone first; then train() calls the next epoch or returns
DistEpochEnd(r) ==
    /\ d_pc[r] = "epoch_end"
    /\ ~InCollective(r)
    /\ IF CheckpointDue(d_epoch[r], d_save_epoch) /\ ~DdpHasAttr("backbone")
       THEN /\ d_pc' = [d_pc EXCEPT ![r] = "crashed"]
            /\ UNCHANGED <<d_epoch, d_iter>>
       ELSE IF d_epoch[r] + 1 < d_epochs
       THEN /\ d_epoch' = [d_epoch EXCEPT ![r] = @ + 1]
            /\ d_iter' = [d_iter EXCEPT ![r] = 0]
            /\ d_pc' = [d_pc EXCEPT ![r] = "forward"]
       ELSE /\ d_pc' = [d_pc EXCEPT ![r] = "done"]
            /\ UNCHANGED <<d_epoch, d_iter>>
    /\ UNCHANGED <<world_size, d_epochs, d_niter, d_save_epoch, d_entered, d_completed, d_corrupt>>
    /\ UNCHANGED notDist

\* the collective a rank is in returns: every rank has entered a collective of that
\* position; with the ranks in different collectives the result is meaningless
DistReturn(r) ==
    /\ InCollective(r)
    /\ AllEntered(d_completed[r] + 1)
    /\ d_completed' = [d_completed EXCEPT ![r] = @ + 1]
    /\ d_corrupt' = (d_corrupt \/ ~SameCollective(d_completed[r] + 1))
    /\ UNCHANGED <<world_size, d_epochs, d_niter, d_save_epoch, d_pc, d_epoch, d_iter, d_entered>>
    /\ UNCHANGED notDist

DistNext ==
    \/ \E r \in Ranks : DistForward(r)
    \/ \E r \in Ranks : DistBackward(r)
    \/ \E r \in Ranks : DistLogging(r)
    \/ \E r \in Ranks : DistSynchronize(r)
    \/ \E r \in Ranks : DistEpochEnd(r)
    \/ \E r \in Ranks : DistReturn(r)

InitDist ==
    DistInit /\ LossIdle /\ KnnIdle /\ LinIdle /\ CorrIdle /\ HsicIdle /\ TrainIdle /\ AccIdle

SpecDist == InitDist /\ [][DistNext]_vars

\* the rank has left train(), by returning or by an exception
Terminated(r) == d_pc[r] \in {"done", "crashed"}

\* a rank is inside a collective that can never return: some rank has left train()
\* without entering a collective of that position
BlockedForever(r) ==
    /\ InCollective(r)
    /\ \E q \in Ranks : Terminated(q) /\ Len(d_entered[q]) <= d_completed[r]

\* C5: with two or more processes and the log writer non-None on rank 0 only, all
\* ranks enter the same collectives in the same order, and no rank blocks forever in
\* a collective that another rank never enters.
C5_SameCollectiveSequence ==
    /\ \A q \in Ranks : \A r \in Ranks :
          \A n \in 1..Len(d_entered[q]) :
              n <= Len(d_entered[r]) => d_entered[q][n] = d_entered[r][n]
    /\ \A r \in Ranks : ~BlockedForever(r)

\* rank 0 waits in a collective after the other rank has left train()
C5_Rank0Blocked ==
    /\ world_size = 2
    /\ Terminated(1)
    /\ BlockedForever(0)

(***************************************************************************)
(* The cross-correlation matrix of a distributed step                      *)
(*                                                                         *)
(* A global batch of GlobalBatch samples is split evenly over the ranks.   *)
(* An entry of c is a fraction <<numerator, denominator>>.                 *)
(***************************************************************************)
\* number of samples of the global batch
GlobalBatch == 4

\* dimension of the embeddings
EmbDim == 2

\* values of a normalized embedding coordinate
EmbVals == {-1, 1}

\* the numbers of processes a global batch can be split over
WorldSizes == {w \in 1..GlobalBatch : GlobalBatch % w = 0}

XRanks == 0..(x_world - 1)

\* the samples of the global batch that the rank holds
LocalSamples(r) ==
    LET n == GlobalBatch \div x_world IN (r * n + 1)..((r + 1) * n)

RECURSIVE SumOver(_, _, _, _)
\* the sum over the samples of S of a[b][i] * b2[b][j]
SumOver(S, i, j, zs) ==
    IF S = {} THEN 0
    ELSE LET b == CHOOSE b \in S : TRUE
         IN zs[1][b][i] * zs[2][b][j] + SumOver(S \ {b}, i, j, zs)

\* c = self.bn(z1).T @ self.bn(z2); c.div_(z1.shape[0]) on one rank: the products
\* summed over the rank's samples, divided by the number of the rank's samples
LocalCorr(r) ==
    [i \in 1..EmbDim |-> [j \in 1..EmbDim |->
        <<SumOver(LocalSamples(r), i, j, <<z1, z2>>), Cardinality(LocalSamples(r))>>]]

RECURSIVE SumNumerators(_, _, _, _)
SumNumerators(R, cl, i, j) ==
    IF R = {} THEN 0
    ELSE LET r == CHOOSE r \in R : TRUE
         IN cl[r][i][j][1] + SumNumerators(R \ {r}, cl, i, j)

\* torch.distributed.all_reduce(c): the sum over the ranks (all entries have the
\* same denominator, the per-rank batch size)
AllReduceSum(cl) ==
    [i \in 1..EmbDim |-> [j \in 1..EmbDim |->
        <<SumNumerators(DOMAIN cl, cl, i, j), cl[0][i][j][2]>>]]

RECURSIVE ColumnSum(_, _, _)
ColumnSum(z, i, b) == IF b = 0 THEN 0 ELSE z[b][i] + ColumnSum(z, i, b - 1)

\* the output of self.bn over the global batch: every coordinate has mean 0 and
\* variance 1 (the variance of a coordinate of values -1 and 1 with mean 0 is 1)
Normalized(z) == \A i \in 1..EmbDim : ColumnSum(z, i, GlobalBatch) = 0

CorrInit ==
    /\ x_world \in WorldSizes
    /\ z1 \in {z \in [1..GlobalBatch -> [1..EmbDim -> EmbVals]] : Normalized(z)}
    /\ z2 \in {z \in [1..GlobalBatch -> [1..EmbDim -> EmbVals]] : Normalized(z)}
    /\ c_local = [r \in XRanks |-> <<>>]
    /\ c_reduced = <<>>

\* one rank computes its c up to c.div_(z1.shape[0])
CorrLocal(r) ==
    /\ c_local[r] = <<>>
    /\ c_local' = [c_local EXCEPT ![r] = LocalCorr(r)]
    /\ UNCHANGED <<x_world, z1, z2, c_reduced>>
    /\ UNCHANGED notCorr

\* the all_reduce returns on every rank
CorrAllReduce ==
    /\ c_reduced = <<>>
    /\ \A r \in XRanks : c_local[r] # <<>>
    /\ c_reduced' = AllReduceSum(c_local)
    /\ UNCHANGED <<x_world, z1, z2, c_local>>
    /\ UNCHANGED notCorr

CorrNext ==
    \/ \E r \in XRanks : CorrLocal(r)
    \/ CorrAllReduce

InitCorr ==
    CorrInit /\ LossIdle /\ KnnIdle /\ LinIdle /\ DistIdle /\ HsicIdle /\ TrainIdle /\ AccIdle

SpecCorr == InitCorr /\ [][CorrNext]_vars

\* equality of two fractions
FracEq(a, b) == a[1] * b[2] = b[1] * a[2]

\* C6: after the all_reduce, entry (i, j) of c is the sum over the whole global batch
\* of the products of the normalized embeddings divided by the size of the global
\* batch, whatever the number of processes; two perfectly correlated views give a
\* diagonal of 1.
C6_GlobalCrossCorrelation ==
    c_reduced # <<>> =>
        /\ \A i \in 1..EmbDim : \A j \in 1..EmbDim :
              FracEq(c_reduced[i][j],
                     <<SumOver(1..GlobalBatch, i, j, <<z1, z2>>), GlobalBatch>>)
        /\ z1 = z2 => \A i \in 1..EmbDim : FracEq(c_reduced[i][i], <<1, 1>>)

\* four processes, one sample each, identical views: the diagonal of c is 4
C6_DiagonalIsWorldSize ==
    /\ x_world = 4
    /\ z1 = z2
    /\ c_reduced # <<>>
    /\ \A i \in 1..EmbDim : FracEq(c_reduced[i][i], <<x_world, 1>>)

(***************************************************************************)
(* The HSIC training script and the Net of the HSIC linear evaluation      *)
(***************************************************************************)
\* largest --epochs
MaxHsicEpochs == 10

\* largest --save_every
MaxSaveEvery == 3

\* the encoders the help of --model_type advertises: 'resnet or vit [tiny, small, base]'
ModelTypes == {"resnet", "vit_tiny", "vit_small", "vit_base"}

Datasets == {"cifar10", "stl10", "tiny_imagenet", "fsd50k"}

\* the values of test_acc_1 that are enumerated
TestAccs == {10, 50}

\* the period of the kNN evaluation: epoch % 5 == 0
EvalEvery == 5

Digit(d) == <<"0", "1", "2", "3", "4", "5", "6", "7", "8", "9">>[d + 1]

RECURSIVE Decimal(_)
\* '{}'.format(n) of a non-negative integer: its decimal digits
Decimal(n) == IF n < 10 THEN <<Digit(n)>> ELSE Append(Decimal(n \div 10), Digit(n % 10))

\* 'results/{}/{}_model.pth'.format(dataset, save_name_pre)
BestName(ds) == <<"results/", ds, "/", "save_name_pre", "_model", ".pth">>

\* 'results/{}/{}_model_{}.pth'.format(dataset, save_name_pre, epoch)
SnapshotName(ds, epoch) ==
    <<"results/", ds, "/", "save_name_pre", "_model_">> \o Decimal(epoch) \o <<".pth">>

\* utils.save_on_master(obj, path) on the main process: the file holds obj
SaveOnMaster(fs, name, obj) ==
    [f \in DOMAIN fs \cup {name} |-> IF f = name THEN obj ELSE fs[f]]

\* model setup of the script: the assignment the model type selects, if any
SetupModel(mt) ==
    IF mt = "resnet" THEN "ResNet"
    ELSE IF mt = "vit_base" THEN "ViT"
    ELSE "undefined"

\* the encoder of Net: self.f and out_dim, if the model type selects an assignment
NetEncoder(mt) ==
    IF mt = "resnet" THEN [f |-> "ResNet.f", out_dim |-> 2048]
    ELSE IF mt = "vit_base" THEN [f |-> "ViT.f", out_dim |-> 768]
    ELSE [f |-> "undefined", out_dim |-> 0]

\* a mutated condition that takes a snapshot only in an epoch with a kNN evaluation
SnapshotDue_in_eval_epochs(epoch, save_every) ==
    epoch % EvalEvery = 0 /\ epoch % save_every = 0

\* if epoch % save_every == 0
SnapshotDue(epoch, save_every) == epoch % save_every = 0

\* if epoch % 5 == 0 and dataset != 'fsd50k'
EvalDue(epoch, ds) == epoch % EvalEvery = 0 /\ ds # "fsd50k"

HsicInit ==
    /\ h_model_type \in ModelTypes
    /\ h_dataset \in Datasets
    /\ h_distributed \in BOOLEAN
    /\ h_epochs \in 1..MaxHsicEpochs
    /\ h_save_every \in 1..MaxSaveEvery
    /\ h_pc = "setup_model"
    /\ h_model = "undefined"
    /\ h_optimizer = "undefined"
    /\ h_epoch = 0
    /\ h_best_acc = 0
    /\ h_test_acc = -1
    /\ h_evals = {}
    /\ h_fs = <<>>
    /\ n_pc = "encoder"
    /\ n_f = "undefined"
    /\ n_out_dim = 0

\* model setup: if model_type == 'resnet' ... elif model_type == 'vit_base' ...
HsicSetupModel ==
    /\ h_pc = "setup_model"
    /\ h_model' = SetupModel(h_model_type)
    /\ h_pc' = "wrap_ddp"
    /\ UNCHANGED <<h_model_type, h_dataset, h_distributed, h_epochs, h_save_every,
                   h_optimizer, h_epoch, h_best_acc, h_test_acc, h_evals, h_fs,
                   n_pc, n_f, n_out_dim>>
    /\ UNCHANGED notHsic

\* if distributed: convert_sync_batchnorm(model), DistributedDataParallel(model)
HsicWrapDdp ==
    /\ h_pc = "wrap_ddp"
    /\ h_pc' = IF h_distributed /\ h_model = "undefined" THEN "NameError" ELSE "optimizer"
    /\ UNCHANGED <<h_model_type, h_dataset, h_distributed, h_epochs, h_save_every, h_model,
                   h_optimizer, h_epoch, h_best_acc, h_test_acc, h_evals, h_fs,
                   n_pc, n_f, n_out_dim>>
    /\ UNCHANGED notHsic

\* the profile of a resnet, then optim.AdamW / optim.Adam(model.parameters(), ...)
HsicOptimizer ==
    /\ h_pc = "optimizer"
    /\ IF h_model = "undefined"
       THEN /\ h_pc' = "NameError"
            /\ UNCHANGED <<h_optimizer, h_epoch>>
       ELSE /\ h_optimizer' = IF h_model_type \in {"vit_tiny", "vit_small", "vit_base"}
                               THEN "AdamW" ELSE "Adam"
            /\ h_epoch' = 1
            /\ h_pc' = "train"
    /\ UNCHANGED <<h_model_type, h_dataset, h_distributed, h_epochs, h_save_every, h_model,
                   h_best_acc, h_test_acc, h_evals, h_fs, n_pc, n_f, n_out_dim>>
    /\ UNCHANGED notHsic

\* train_loss = train(args, model, train_loader, optimizer, wandb_run)
HsicTrainEpoch ==
    /\ h_pc = "train"
    /\ h_pc' = "evaluate"
    /\ UNCHANGED <<h_model_type, h_dataset, h_distributed, h_epochs, h_save_every, h_model,
                   h_optimizer, h_epoch, h_best_acc, h_test_acc, h_evals, h_fs,
                   n_pc, n_f, n_out_dim>>
    /\ UNCHANGED notHsic

\* the kNN evaluation of the epoch, when it is due, with the save of the best model
HsicEvaluate ==
    /\ h_pc = "evaluate"
    /\ h_pc' = "snapshot"
    /\ IF EvalDue(h_epoch, h_dataset)
       THEN \E acc \in TestAccs :
              /\ h_test_acc' = acc
              /\ h_evals' = h_evals \cup {h_epoch}
              /\ IF acc > h_best_acc
                 THEN /\ h_best_acc' = acc
                      /\ h_fs' = SaveOnMaster(h_fs, BestName(h_dataset), h_epoch)
                 ELSE UNCHANGED <<h_best_acc, h_fs>>
       ELSE UNCHANGED <<h_test_acc, h_evals, h_best_acc, h_fs>>
    /\ UNCHANGED <<h_model_type, h_dataset, h_distributed, h_epochs, h_save_every, h_model,
                   h_optimizer, h_epoch, n_pc, n_f, n_out_dim>>
    /\ UNCHANGED notHsic

\* the snapshot of the epoch, when it is due, and the step of the epoch loop
HsicSnapshot ==
    /\ h_pc = "snapshot"
    /\ h_fs' = IF SnapshotDue(h_epoch, h_save_every)
               THEN SaveOnMaster(h_fs, SnapshotName(h_dataset, h_epoch), h_epoch)
               ELSE h_fs
    /\ IF h_epoch < h_epochs
       THEN h_epoch' = h_epoch + 1 /\ h_pc' = "train"
       ELSE h_epoch' = h_epoch /\ h_pc' = "done"
    /\ UNCHANGED <<h_model_type, h_dataset, h_distributed, h_epochs, h_save_every, h_model,
                   h_optimizer, h_best_acc, h_test_acc, h_evals, n_pc, n_f, n_out_dim>>
    /\ UNCHANGED notHsic

\* Net.__init__: the encoder
NetSetupEncoder ==
    /\ n_pc = "encoder"
    /\ n_f' = NetEncoder(h_model_type).f
    /\ n_out_dim' = NetEncoder(h_model_type).out_dim
    /\ n_pc' = "classifier"
    /\ UNCHANGED <<h_model_type, h_dataset, h_distributed, h_epochs, h_save_every, h_pc,
                   h_model, h_optimizer, h_epoch, h_best_acc, h_test_acc, h_evals, h_fs>>
    /\ UNCHANGED notHsic

\* Net.__init__: self.fc = nn.Linear(out_dim, num_class), then load_state_dict
NetSetupClassifier ==
    /\ n_pc = "classifier"
    /\ n_pc' = IF n_out_dim = 0 THEN "NameError" ELSE "built"
    /\ UNCHANGED <<h_model_type, h_dataset, h_distributed, h_epochs, h_save_every, h_pc,
                   h_model, h_optimizer, h_epoch, h_best_acc, h_test_acc, h_evals, h_fs,
                   n_f, n_out_dim>>
    /\ UNCHANGED notHsic

HsicNext ==
    \/ HsicSetupModel
    \/ HsicWrapDdp
    \/ HsicOptimizer
    \/ HsicTrainEpoch
    \/ HsicEvaluate
    \/ HsicSnapshot
    \/ NetSetupEncoder
    \/ NetSetupClassifier

InitHsic ==
    HsicInit /\ LossIdle /\ KnnIdle /\ LinIdle /\ DistIdle /\ CorrIdle /\ TrainIdle /\ AccIdle

SpecHsic == InitHsic /\ [][HsicNext]_vars

\* the epochs whose end the script has passed
EpochsEnded ==
    IF h_pc = "done" THEN h_epochs
    ELSE IF h_pc \in {"train", "evaluate", "snapshot"} THEN h_epoch - 1
    ELSE 0

\* C7: the snapshot of epoch e exists exactly when epoch e has ended and
\* e mod save_every = 0, for every dataset and whether or not the kNN evaluation ran
\* in that epoch; it holds the model of epoch e (no later save overwrote it), and the
\* snapshots of different epochs have different names.
C7_SnapshotEverySaveEvery ==
    /\ \A e \in 1..h_epochs :
          /\ SnapshotName(h_dataset, e) \in DOMAIN h_fs
                <=> (e <= EpochsEnded /\ e % h_save_every = 0)
          /\ SnapshotName(h_dataset, e) \in DOMAIN h_fs
                => h_fs[SnapshotName(h_dataset, e)] = e
    /\ \A e1 \in 1..h_epochs : \A e2 \in 1..h_epochs :
          e1 # e2 => SnapshotName(h_dataset, e1) # SnapshotName(h_dataset, e2)

\* fsd50k, ten epochs, save_every 3: no kNN evaluation, snapshots of epochs 3, 6, 9
C7_WitnessFsd50k ==
    /\ h_pc = "done"
    /\ h_dataset = "fsd50k" /\ h_epochs = 10 /\ h_save_every = 3
    /\ h_evals = {}
    /\ DOMAIN h_fs = {SnapshotName("fsd50k", 3), SnapshotName("fsd50k", 6),
                      SnapshotName("fsd50k", 9)}

\* C8: for every advertised model type the encoder exists before its first use: the
\* script never reads an undefined model, and Net never reads an undefined out_dim.
C8_EncoderDefinedBeforeUse ==
    /\ h_pc # "NameError"
    /\ n_pc # "NameError"
    /\ h_pc # "setup_model" => h_model # "undefined"
    /\ n_pc # "encoder" => n_f # "undefined"

\* --model_type vit_small: the script stops with a NameError where it first reads model
C8_VitSmallNameError ==
    /\ h_model_type = "vit_small"
    /\ h_pc = "NameError"
    /\ h_model = "undefined"

(***************************************************************************)
(* The accuracy counters of test() and train_val()                         *)
(***************************************************************************)
\* largest number of batches of the data loader
AccLoaderLen == 2

\* largest data.size(0)
MaxBatch == 2

\* the number of classes c of a single-label dataset, more than five
AccNumClasses == 6

AccClasses == 0..(AccNumClasses - 1)

\* prediction[:, 0:5] / pred_labels[:, :5]
TopN == 5

\* rows of pred_scores / out: one without ties, one where the two best classes tie
ScoreRows ==
    {[cls \in AccClasses |-> AccNumClasses - cls],
     [cls \in AccClasses |-> IF cls <= 1 THEN AccNumClasses ELSE AccNumClasses - cls]}

\* the rankings argsort(dim=-1, descending=True) can give for a row
Rankings == UNION {ArgsortDesc(row) : row \in ScoreRows}

\* the targets of the samples: the second class and the last one
AccTargets == {1, AccNumClasses - 1}

\* what one sample contributes: its ranking and its target
Samples == {[pred |-> p, target |-> t] : p \in Rankings, t \in AccTargets}

\* a mutated slice that leaves out the first column
Prefix_skips_first(p, n) == SubSeq(p, 2, IF n < Len(p) THEN n ELSE Len(p))

\* p[0:n]: the first n entries, all of them when there are fewer
Prefix(p, n) == SubSeq(p, 1, IF n < Len(p) THEN n ELSE Len(p))

\* (prefix == target.unsqueeze(dim=-1)).any(dim=-1).float(): 1.0 or 0.0 per sample
AnyEqual(prefix, target) == IF \E j \in DOMAIN prefix : prefix[j] = target THEN 1 ELSE 0

\* torch.sum((prediction[:, 0:n] == target.unsqueeze(dim=-1)).any(dim=-1).float()).item()
CountCorrect(batch, n) ==
    SumSeq([i \in 1..Len(batch) |-> AnyEqual(Prefix(batch[i].pred, n), batch[i].target)])

\* x / total_num * 100, kept as a fraction
Percent(x, total) == [num |-> x * 100, den |-> total]

\* the pair of accuracies of a progress report or of the return statement
Accuracies(top1, top5, total) ==
    IF total = 0 THEN Raised("ZeroDivisionError")
    ELSE Ok([acc_1 |-> Percent(top1, total), acc_5 |-> Percent(top5, total)])

AccInit ==
    /\ a_fn \in {"test", "train_val"}
    /\ a_left \in 0..AccLoaderLen
    /\ a_pc = "loop"
    /\ a_total_num = 0
    /\ a_top1 = 0
    /\ a_top5 = 0
    /\ a_batch = <<>>
    /\ a_report = Unset
    /\ a_return = Unset

\* one batch: total_num, the two counters, and the progress report
CountBatch(batch) ==
    /\ a_left' = a_left - 1
    /\ a_batch' = batch
    /\ a_total_num' = a_total_num + Len(batch)
    /\ a_top1' = a_top1 + CountCorrect(batch, 1)
    /\ a_top5' = a_top5 + CountCorrect(batch, TopN)
    /\ a_report' = Accuracies(a_top1 + CountCorrect(batch, 1),
                              a_top5 + CountCorrect(batch, TopN),
                              a_total_num + Len(batch))
    /\ UNCHANGED <<a_fn, a_pc, a_return>>
    /\ UNCHANGED notAcc

\* test(): one batch of the test data loader
KnnTestBatch ==
    /\ a_fn = "test"
    /\ a_pc = "loop"
    /\ a_left > 0
    /\ \E b \in 1..MaxBatch : \E batch \in [1..b -> Samples] : CountBatch(batch)

\* train_val(), dataset other than fsd50k: one batch of the data loader
TrainValBatch ==
    /\ a_fn = "train_val"
    /\ a_pc = "loop"
    /\ a_left > 0
    /\ \E b \in 1..MaxBatch : \E batch \in [1..b -> Samples] : CountBatch(batch)

\* the return statement after the loop
AccReturn ==
    /\ a_pc = "loop"
    /\ a_left = 0
    /\ a_return' = Accuracies(a_top1, a_top5, a_total_num)
    /\ a_pc' = IF a_total_num = 0 THEN "ZeroDivisionError" ELSE "done"
    /\ UNCHANGED <<a_fn, a_left, a_total_num, a_top1, a_top5, a_batch, a_report>>
    /\ UNCHANGED notAcc

AccNext ==
    \/ KnnTestBatch
    \/ TrainValBatch
    \/ AccReturn

InitAcc ==
    AccInit /\ LossIdle /\ KnnIdle /\ LinIdle /\ DistIdle /\ CorrIdle /\ HsicIdle /\ TrainIdle

SpecAcc == InitAcc /\ [][AccNext]_vars

\* a percentage between 0 and 100
InRange(f) == f.den > 0 /\ 0 <= f.num /\ f.num <= 100 * f.den

\* f <= g for fractions of positive denominators
FracLeq(f, g) == f.num * g.den <= g.num * f.den

\* the accuracies of a report are in [0, 100] and Acc@1 <= Acc@5
GoodReport(r) ==
    r.st = "ok" => InRange(r.val.acc_1) /\ InRange(r.val.acc_5)
                   /\ FracLeq(r.val.acc_1, r.val.acc_5)

\* the samples of a batch whose target is among the first n predicted classes
Hits(batch, n) ==
    {i \in DOMAIN batch :
        \E j \in 1..n : j <= Len(batch[i].pred) /\ batch[i].pred[j] = batch[i].target}

\* C13: after any number of batches 0 <= top-1 correct <= top-5 correct <= total_num,
\* every reported and returned Acc@1 and Acc@5 is in [0, 100] with Acc@1 <= Acc@5, and
\* a batch adds to each counter the number of its samples that hit, each sample once.
C13_CountersOrdered ==
    /\ [](/\ 0 <= a_top1 /\ a_top1 <= a_top5 /\ a_top5 <= a_total_num
          /\ GoodReport(a_report)
          /\ GoodReport(a_return))
    /\ [][a_left' # a_left =>
            /\ a_total_num' - a_total_num = Len(a_batch')
            /\ a_top1' - a_top1 = Cardinality(Hits(a_batch', 1))
            /\ a_top5' - a_top5 = Cardinality(Hits(a_batch', TopN))]_vars

\* two batches of two samples: one top-1 hit, two more within the first five, one miss
C13_Witness ==
    /\ a_pc = "done"
    /\ a_total_num = 4
    /\ a_top1 = 1
    /\ a_top5 = 3
    /\ a_return = Accuracies(1, 3, 4)

====
